---------------------------- MODULE Spec2Model ----------------------------
(***************************************************************************)
(* A model of the safe wrapper of ssdeep-rs (src/src/lib.rs) around the    *)
(* three libfuzzy entry points declared in src/libfuzzy-sys/lib.rs.        *)
(*                                                                         *)
(* One call of compare(), hash() or hash_from_file() is in progress at a   *)
(* time (the functions are synchronous and share no state).  A call is     *)
(* followed statement by statement; the native library is a black box      *)
(* whose return value and whose writes into the result buffer are chosen   *)
(* nondeterministically.                                                   *)
(***************************************************************************)
EXTENDS Integers, Sequences, FiniteSets

VARIABLES
    pc,           \* position of the call in progress
    op,           \* "none", "compare", "hash" or "hash_from_file"
    hash1, hash2, \* compare(): the two &str arguments, as bytes
    bufLen,       \* hash(): buf.len()
    path,         \* hash_from_file(): the bytes of file_path
    live,         \* buffers and CStrings owned by the frames of the call
    handed,       \* buffers owned by the value returned to the caller
    nativeCalled, \* name of the native function this call has invoked
    nativeLen,    \* the buf_len argument given to fuzzy_hash_buf()
    rc,           \* what the native function returned
    result,       \* the bytes of the result buffer's allocation
    resultLen,    \* the Vec's length field (set_len)
    i, len,       \* loop variables of the scan in result_buffer_to_string()
    lastRead,     \* index of the latest get_unchecked(), -1 before any
    scanned,      \* whether the scan loop has been entered in this call
    outcome       \* what the call gave back to its caller

vars == <<pc, op, hash1, hash2, bufLen, path, live, handed, nativeCalled,
          nativeLen, rc, result, resultLen, i, len, lastRead, scanned,
          outcome>>

---------------------------------------------------------------------------
(* Bounds of the model.                                                    *)

\* Longest compare() argument and longest path that is tried.
MaxStrLen == 2
\* Number of leading bytes of the result buffer chosen one by one.
MaxPrefix == 2
\* How far around 0 and around 2^32 - 1 the lengths given to hash() go.
LenSlack == 1

\* Bytes that are tried: NUL, 'A', and the two bytes of U+00E9 (0xC3 0xA9),
\* each of which alone is not valid UTF-8.
ByteSample == {0, 65, 169, 195}

---------------------------------------------------------------------------
(* Constants of the program.                                               *)

SPAMSUM_LENGTH == 64

FUZZY_MAX_RESULT == 2 * SPAMSUM_LENGTH + 20

\* Lengths (usize) go beyond what the checker's integers hold, so a length
\* is kept as two 16-bit limbs <<high, low>>, its value being
\* high * 2^16 + low; the high limb of a usize is not limited to 16 bits.
Limb == 256 * 256

LenNorm(hi, lo) == <<hi + (lo \div Limb), lo % Limb>>

LenLeq(a, b) == a[1] < b[1] \/ (a[1] = b[1] /\ a[2] <= b[2])

\* u32::max_value()
U32Max == <<Limb - 1, Limb - 1>>

\* c_int is a 32-bit signed integer.
I32Max == 2147483647
I32Min == (-I32Max) - 1

CompareFuncName == "fuzzy_compare"

HashFuncName == "fuzzy_hash_buf"

HashFromFileFuncName_Copied == "fuzzy_hash_buf"
HashFromFileFuncName == "fuzzy_hash_filename"

---------------------------------------------------------------------------
(* Values.                                                                 *)

ByteSeqs(n) == UNION {[1..k -> ByteSample] : k \in 0..n}

\* What a call gives back: nothing yet, Ok(u8), Ok(String), Err(Error) or a
\* panic (name then tells the panicking expression).
NoOutcome == [kind |-> "none", name |-> "", code |-> 0, score |-> 0, text |-> <<>>]

OkScore(v) == [kind |-> "ok", name |-> "", code |-> 0, score |-> v, text |-> <<>>]

OkText(s) == [kind |-> "ok", name |-> "", code |-> 0, score |-> 0, text |-> s]

CFunctionFailed(n, c) == [kind |-> "err", name |-> n, code |-> c, score |-> 0, text |-> <<>>]

Panic(site) == [kind |-> "panic", name |-> site, code |-> 0, score |-> 0, text |-> <<>>]

---------------------------------------------------------------------------
(* Conversions.                                                            *)

\* CString::new(s) fails when s holds a zero byte anywhere.
CStringNewFails_LastOnly(s) == Len(s) > 0 /\ s[Len(s)] = 0
CStringNewFails(s) == \E k \in 1..Len(s) : s[k] = 0

IsCont(b) == b >= 128 /\ b <= 191

\* The number of bytes of the well-formed UTF-8 sequence that starts at
\* s[k], 0 when there is none (what core::str::from_utf8 accepts).
Utf8SeqLen(s, k) ==
    LET n == Len(s)
        b0 == s[k]
        b1 == IF k + 1 <= n THEN s[k + 1] ELSE -1
        b2 == IF k + 2 <= n THEN s[k + 2] ELSE -1
        b3 == IF k + 3 <= n THEN s[k + 3] ELSE -1
    IN  IF b0 <= 127 THEN 1
        ELSE IF b0 >= 194 /\ b0 <= 223
            THEN IF IsCont(b1) THEN 2 ELSE 0
        ELSE IF b0 = 224
            THEN IF b1 >= 160 /\ b1 <= 191 /\ IsCont(b2) THEN 3 ELSE 0
        ELSE IF (b0 >= 225 /\ b0 <= 236) \/ b0 = 238 \/ b0 = 239
            THEN IF IsCont(b1) /\ IsCont(b2) THEN 3 ELSE 0
        ELSE IF b0 = 237
            THEN IF b1 >= 128 /\ b1 <= 159 /\ IsCont(b2) THEN 3 ELSE 0
        ELSE IF b0 = 240
            THEN IF b1 >= 144 /\ b1 <= 191 /\ IsCont(b2) /\ IsCont(b3) THEN 4 ELSE 0
        ELSE IF b0 >= 241 /\ b0 <= 243
            THEN IF IsCont(b1) /\ IsCont(b2) /\ IsCont(b3) THEN 4 ELSE 0
        ELSE IF b0 = 244
            THEN IF b1 >= 128 /\ b1 <= 143 /\ IsCont(b2) /\ IsCont(b3) THEN 4 ELSE 0
        ELSE 0

RECURSIVE Utf8ValidFrom(_, _)
Utf8ValidFrom(s, k) ==
    IF k > Len(s) THEN TRUE
    ELSE LET n == Utf8SeqLen(s, k)
         IN  IF n = 0 THEN FALSE ELSE Utf8ValidFrom(s, k + n)

\* String::from_utf8(v).is_ok(), and Path::to_str().is_some() on the bytes
\* of a path.
Utf8Valid(s) == Utf8ValidFrom(s, 1)

\* `score as u8`: the low eight bits.
AsU8_SevenBits(x) == x % 128
AsU8(x) == x % 256

\* `buf.len() as u32`: the low 32 bits.
AsU32(x) == <<x[1] % Limb, x[2]>>

---------------------------------------------------------------------------
(* The decisions of the code, one operator each.                           *)

\* assert!(buf.len() <= u32::max_value() as usize)
LenAccepted_Strict(n) == ~LenLeq(U32Max, n)
LenAccepted(n) == LenLeq(n, U32Max)

\* compare(): if score == -1 { Err(..) } else { Ok(score as u8) }
CompareResult_NonPositive(score) ==
    IF score <= 0 THEN CFunctionFailed(CompareFuncName, -1)
    ELSE OkScore(AsU8(score))
CompareResult(score) ==
    IF score = -1 THEN CFunctionFailed(CompareFuncName, -1)
    ELSE OkScore(AsU8(score))

\* result_buffer_to_string(): if rc != 0 { return Err(..) }
NativeFailed_NegativeOnly(r) == r < 0
NativeFailed(r) == r /= 0

\* result_buffer_to_string(): the Err(..) that is returned
HashError_MinusOne(func, r) == CFunctionFailed(func, -1)
HashError(func, r) == CFunctionFailed(func, r)

\* for i in 0..raw::FUZZY_MAX_RESULT
ScanBound_Inclusive == FUZZY_MAX_RESULT + 1
ScanBound == FUZZY_MAX_RESULT

\* Locals that are still owned when a frame is left by return or by a
\* panic's unwinding are dropped.
DropLocals_Leak(owned) == owned
DropLocals(owned) == {}

---------------------------------------------------------------------------
(* Inputs and what the native library may do.                              *)

\* &str arguments are valid UTF-8 by their type.
StrInputs == {s \in ByteSeqs(MaxStrLen) : Utf8Valid(s)}

\* A path is any byte sequence (OsStr on Unix).
PathInputs == ByteSeqs(MaxStrLen)

\* buf.len(): lengths near 0 and on both sides of u32::max_value().
LenInputs ==
    {LenNorm(0, d) : d \in 0..LenSlack}
    \cup {LenNorm(Limb - 1, Limb - 1 + d) : d \in (-LenSlack)..(LenSlack + 1)}

\* Return values of fuzzy_compare(): a c_int, in and out of -1..100.
NativeScores == {I32Min, -2, -1, 0, 22, 100, 101, 255, 256, 300, I32Max}

\* Return values of fuzzy_hash_buf() and fuzzy_hash_filename(): a c_int.
NativeStatuses == {I32Min, -1, 0, 1, I32Max}

\* The FUZZY_MAX_RESULT bytes of the result buffer after the native call:
\* a chosen prefix, then one byte repeated, then a last byte.  Bytes the
\* library did not write are uninitialized, so any content may be seen.
BufferOf(prefix, fill, last) ==
    [k \in 1..FUZZY_MAX_RESULT |->
        IF k <= Len(prefix) THEN prefix[k]
        ELSE IF k = FUZZY_MAX_RESULT THEN last ELSE fill]

BufferContents ==
    {BufferOf(p, f, l) : p \in ByteSeqs(MaxPrefix), f \in {0, 65}, l \in {0, 65}}

\* *result.get_unchecked(idx): the byte at idx; outside the allocation the
\* read is undefined and may give any byte.
ReadByte(buf, idx) == IF idx < Len(buf) THEN {buf[idx + 1]} ELSE ByteSample

---------------------------------------------------------------------------
(* Initial state: no call in progress.                                     *)

Init ==
    /\ pc = "idle"
    /\ op = "none"
    /\ hash1 = <<>>
    /\ hash2 = <<>>
    /\ bufLen = <<0, 0>>
    /\ path = <<>>
    /\ live = {}
    /\ handed = {}
    /\ nativeCalled = "none"
    /\ nativeLen = <<0, 0>>
    /\ rc = 0
    /\ result = <<>>
    /\ resultLen = 0
    /\ i = 0
    /\ len = 0
    /\ lastRead = -1
    /\ scanned = FALSE
    /\ outcome = NoOutcome

\* The call ends with `out`; every local still owned is dropped, `moved`
\* goes to the caller inside the returned value.
Leave(out, moved) ==
    /\ pc' = "done"
    /\ outcome' = out
    /\ live' = DropLocals(live \ moved)
    /\ handed' = moved

---------------------------------------------------------------------------
(* compare(hash1, hash2)                                                   *)

CompareBegin(s1, s2) ==
    /\ pc = "idle"
    /\ pc' = "cmp_h1"
    /\ op' = "compare"
    /\ hash1' = s1
    /\ hash2' = s2
    /\ UNCHANGED <<bufLen, path, live, handed, nativeCalled, nativeLen, rc,
                   result, resultLen, i, len, lastRead, scanned, outcome>>

\* let h1 = str_to_cstring(hash1);
CompareCstr1 ==
    /\ pc = "cmp_h1"
    /\ IF CStringNewFails(hash1)
       THEN Leave(Panic("CString::new"), {})
       ELSE /\ pc' = "cmp_h2"
            /\ live' = live \cup {"h1"}
            /\ UNCHANGED <<handed, outcome>>
    /\ UNCHANGED <<op, hash1, hash2, bufLen, path, nativeCalled, nativeLen,
                   rc, result, resultLen, i, len, lastRead, scanned>>

\* let h2 = str_to_cstring(hash2);
CompareCstr2 ==
    /\ pc = "cmp_h2"
    /\ IF CStringNewFails(hash2)
       THEN Leave(Panic("CString::new"), {})
       ELSE /\ pc' = "cmp_call"
            /\ live' = live \cup {"h2"}
            /\ UNCHANGED <<handed, outcome>>
    /\ UNCHANGED <<op, hash1, hash2, bufLen, path, nativeCalled, nativeLen,
                   rc, result, resultLen, i, len, lastRead, scanned>>

\* let score = unsafe { raw::fuzzy_compare(..) };
CompareNative(r) ==
    /\ pc = "cmp_call"
    /\ pc' = "cmp_ret"
    /\ nativeCalled' = CompareFuncName
    /\ rc' = r
    /\ UNCHANGED <<op, hash1, hash2, bufLen, path, live, handed, nativeLen,
                   result, resultLen, i, len, lastRead, scanned, outcome>>

\* if score == -1 { Err(..) } else { Ok(score as u8) }
CompareReturn ==
    /\ pc = "cmp_ret"
    /\ Leave(CompareResult(rc), {})
    /\ UNCHANGED <<op, hash1, hash2, bufLen, path, nativeCalled, nativeLen,
                   rc, result, resultLen, i, len, lastRead, scanned>>

---------------------------------------------------------------------------
(* hash(buf)                                                               *)

HashBegin(n) ==
    /\ pc = "idle"
    /\ pc' = "hash_assert"
    /\ op' = "hash"
    /\ bufLen' = n
    /\ UNCHANGED <<hash1, hash2, path, live, handed, nativeCalled, nativeLen,
                   rc, result, resultLen, i, len, lastRead, scanned, outcome>>

\* assert!(buf.len() <= u32::max_value() as usize);
HashAssert ==
    /\ pc = "hash_assert"
    /\ IF LenAccepted(bufLen)
       THEN /\ pc' = "hash_alloc"
            /\ UNCHANGED <<live, handed, outcome>>
       ELSE Leave(Panic("assert"), {})
    /\ UNCHANGED <<op, hash1, hash2, bufLen, path, nativeCalled, nativeLen,
                   rc, result, resultLen, i, len, lastRead, scanned>>

\* let mut result = create_buffer_for_result();
HashAlloc ==
    /\ pc = "hash_alloc"
    /\ pc' = "hash_call"
    /\ live' = live \cup {"result"}
    /\ resultLen' = 0
    /\ UNCHANGED <<op, hash1, hash2, bufLen, path, handed, nativeCalled,
                   nativeLen, rc, result, i, len, lastRead, scanned, outcome>>

\* let rc = unsafe { raw::fuzzy_hash_buf(buf.as_ptr(), buf.len() as u32, ..) };
HashNative(r, content) ==
    /\ pc = "hash_call"
    /\ pc' = "rbts"
    /\ nativeCalled' = HashFuncName
    /\ nativeLen' = AsU32(bufLen)
    /\ rc' = r
    /\ result' = content
    /\ UNCHANGED <<op, hash1, hash2, bufLen, path, live, handed, resultLen,
                   i, len, lastRead, scanned, outcome>>

---------------------------------------------------------------------------
(* hash_from_file(file_path)                                               *)

HashFromFileBegin(p) ==
    /\ pc = "idle"
    /\ pc' = "hff_alloc"
    /\ op' = "hash_from_file"
    /\ path' = p
    /\ UNCHANGED <<hash1, hash2, bufLen, live, handed, nativeCalled,
                   nativeLen, rc, result, resultLen, i, len, lastRead,
                   scanned, outcome>>

\* let mut result = create_buffer_for_result();
HashFromFileAlloc ==
    /\ pc = "hff_alloc"
    /\ pc' = "hff_path"
    /\ live' = live \cup {"result"}
    /\ resultLen' = 0
    /\ UNCHANGED <<op, hash1, hash2, bufLen, path, handed, nativeCalled,
                   nativeLen, rc, result, i, len, lastRead, scanned, outcome>>

\* let fp = path_as_cstring(file_path);
HashFromFilePath ==
    /\ pc = "hff_path"
    /\ IF ~Utf8Valid(path)
       THEN Leave(Panic("to_str"), {})
       ELSE IF CStringNewFails(path)
       THEN Leave(Panic("CString::new"), {})
       ELSE /\ pc' = "hff_call"
            /\ live' = live \cup {"fp"}
            /\ UNCHANGED <<handed, outcome>>
    /\ UNCHANGED <<op, hash1, hash2, bufLen, path, nativeCalled, nativeLen,
                   rc, result, resultLen, i, len, lastRead, scanned>>

\* let rc = unsafe { raw::fuzzy_hash_filename(..) };
HashFromFileNative(r, content) ==
    /\ pc = "hff_call"
    /\ pc' = "rbts"
    /\ nativeCalled' = HashFromFileFuncName
    /\ rc' = r
    /\ result' = content
    /\ UNCHANGED <<op, hash1, hash2, bufLen, path, live, handed, nativeLen,
                   resultLen, i, len, lastRead, scanned, outcome>>

---------------------------------------------------------------------------
(* result_buffer_to_string(libfuzzy_func, result, rc)                      *)

\* if rc != 0 { return Err(..) }; otherwise result.set_len(FUZZY_MAX_RESULT)
\* and the loop starts with len = 0.
ResultCheckRc ==
    /\ pc = "rbts"
    /\ IF NativeFailed(rc)
       THEN /\ Leave(HashError(nativeCalled, rc), {})
            /\ UNCHANGED <<resultLen, i, len, scanned>>
       ELSE /\ pc' = "scan"
            /\ resultLen' = FUZZY_MAX_RESULT
            /\ i' = 0
            /\ len' = 0
            /\ scanned' = TRUE
            /\ UNCHANGED <<live, handed, outcome>>
    /\ UNCHANGED <<op, hash1, hash2, bufLen, path, nativeCalled, nativeLen,
                   rc, result, lastRead>>

\* One iteration of `for i in 0..FUZZY_MAX_RESULT`, or the loop's end
\* followed by result.set_len(len).
ScanStep ==
    /\ pc = "scan"
    /\ IF i < ScanBound
       THEN \E b \in ReadByte(result, i) :
              /\ lastRead' = i
              /\ IF b = 0
                 THEN /\ pc' = "decode"
                      /\ resultLen' = len
                      /\ UNCHANGED <<i, len>>
                 ELSE /\ len' = len + 1
                      /\ i' = i + 1
                      /\ UNCHANGED <<pc, resultLen>>
       ELSE /\ pc' = "decode"
            /\ resultLen' = len
            /\ UNCHANGED <<i, len, lastRead>>
    /\ UNCHANGED <<op, hash1, hash2, bufLen, path, live, handed,
                   nativeCalled, nativeLen, rc, result, scanned, outcome>>

\* Ok(String::from_utf8(result).unwrap())
ResultDecode ==
    /\ pc = "decode"
    /\ LET bytes == [k \in 1..resultLen |->
                        IF k <= Len(result) THEN result[k] ELSE 0]
       IN  IF Utf8Valid(bytes)
           THEN Leave(OkText(bytes), {"result"})
           ELSE Leave(Panic("from_utf8"), {})
    /\ UNCHANGED <<op, hash1, hash2, bufLen, path, nativeCalled, nativeLen,
                   rc, result, resultLen, i, len, lastRead, scanned>>

---------------------------------------------------------------------------
(* The caller takes the outcome; the returned value is dropped and the     *)
(* next call may start.                                                    *)

CallerTakes ==
    /\ pc = "done"
    /\ pc' = "idle"
    /\ op' = "none"
    /\ hash1' = <<>>
    /\ hash2' = <<>>
    /\ bufLen' = <<0, 0>>
    /\ path' = <<>>
    /\ live' = live       \* nothing of the call is touched any more
    /\ handed' = {}
    /\ nativeCalled' = "none"
    /\ nativeLen' = <<0, 0>>
    /\ rc' = 0
    /\ result' = <<>>
    /\ resultLen' = 0
    /\ i' = 0
    /\ len' = 0
    /\ lastRead' = -1
    /\ scanned' = FALSE
    /\ outcome' = NoOutcome

Next ==
    \/ \E s1 \in StrInputs, s2 \in StrInputs : CompareBegin(s1, s2)
    \/ CompareCstr1
    \/ CompareCstr2
    \/ \E r \in NativeScores : CompareNative(r)
    \/ CompareReturn
    \/ \E n \in LenInputs : HashBegin(n)
    \/ HashAssert
    \/ HashAlloc
    \/ \E r \in NativeStatuses, c \in BufferContents : HashNative(r, c)
    \/ \E p \in PathInputs : HashFromFileBegin(p)
    \/ HashFromFileAlloc
    \/ HashFromFilePath
    \/ \E r \in NativeStatuses, c \in BufferContents : HashFromFileNative(r, c)
    \/ ResultCheckRc
    \/ ScanStep
    \/ ResultDecode
    \/ CallerTakes

Spec == Init /\ [][Next]_vars

---------------------------------------------------------------------------
(* Properties.                                                             *)

HashOps == {"hash", "hash_from_file"}

HasZero(s) == 0 \in {s[k] : k \in 1..Len(s)}

\* The number of bytes of buf before its first zero byte, Len(buf) when it
\* holds none.
ZeroFreePrefixLen(buf) ==
    IF HasZero(buf)
    THEN (CHOOSE k \in 1..Len(buf) :
            buf[k] = 0 /\ \A j \in 1..(k - 1) : buf[j] /= 0) - 1
    ELSE Len(buf)

\* A hash()/hash_from_file() call that has ended after its native call.
HashCallEnded == pc = "done" /\ op \in HashOps /\ nativeCalled /= "none"

\* A compare() call that has ended after its native call.
CompareCallEnded == pc = "done" /\ op = "compare" /\ nativeCalled /= "none"

C2_Original ==
    HashCallEnded =>
        /\ (outcome.kind = "err") <=> (rc /= 0)
        /\ outcome.kind = "err" => outcome.code = rc
        /\ rc = 0 => outcome.kind = "ok"

\* C2 as amended: the result is an error iff rc /= 0 and the error carries
\* rc; with rc = 0 no error value is produced: the result is Ok(signature),
\* or the call panics in from_utf8 because the bytes before the first zero
\* byte are not valid UTF-8.
C2_ErrorIffNonZeroStatus ==
    HashCallEnded =>
        /\ (outcome.kind = "err") <=> (rc /= 0)
        /\ outcome.kind = "err" => outcome.code = rc
        /\ rc = 0 =>
            \/ outcome.kind = "ok"
            \/ /\ outcome = Panic("from_utf8")
               /\ ~Utf8Valid(SubSeq(result, 1, ZeroFreePrefixLen(result)))

C2_Witness ==
    /\ HashCallEnded
    /\ rc = 1
    /\ outcome.kind = "err"
    /\ outcome.code = 1

\* C3: with status 0 the returned signature is the bytes of the result
\* buffer before its first zero byte (all FUZZY_MAX_RESULT bytes when there
\* is none); the scan reads only indexes 0..FUZZY_MAX_RESULT-1, and the
\* signature has at most FUZZY_MAX_RESULT bytes, none of them zero.
C3_SignatureIsZeroFreePrefix ==
    /\ lastRead \in (-1)..(FUZZY_MAX_RESULT - 1)
    /\ (HashCallEnded /\ outcome.kind = "ok") =>
        /\ outcome.text = SubSeq(result, 1, ZeroFreePrefixLen(result))
        /\ Len(outcome.text) <= FUZZY_MAX_RESULT
        /\ ~HasZero(outcome.text)

\* The buffer holds no zero byte at all and the signature is all of it.
C3_Witness ==
    /\ HashCallEnded
    /\ outcome.kind = "ok"
    /\ ~HasZero(result)
    /\ Len(outcome.text) = FUZZY_MAX_RESULT
    /\ lastRead = FUZZY_MAX_RESULT - 1

\* C4: hash() accepts a length of exactly 2^32 - 1 and calls the native
\* function with it; for a length of 2^32 or more it panics before any
\* native call; the native function never gets a truncated length.
C4_LengthLimit ==
    op = "hash" =>
        /\ nativeCalled /= "none" => (nativeLen = bufLen /\ bufLen[1] < Limb)
        /\ bufLen[1] >= Limb =>
            /\ nativeCalled = "none"
            /\ pc = "done" => outcome = Panic("assert")
        /\ bufLen = <<Limb - 1, Limb - 1>> =>
            /\ outcome /= Panic("assert")
            /\ pc = "done" => nativeCalled = HashFuncName

C4_Witness ==
    /\ op = "hash"
    /\ pc = "done"
    /\ bufLen = <<Limb - 1, Limb - 1>>
    /\ nativeCalled = HashFuncName
    /\ nativeLen = <<Limb - 1, Limb - 1>>

\* C5: with a NUL byte in either argument of compare() or in the path of
\* hash_from_file() the call panics: no native function is invoked and
\* neither Ok nor Err is returned.
C5_EmbeddedNulIsFatal ==
    (\/ op = "compare" /\ (HasZero(hash1) \/ HasZero(hash2))
     \/ op = "hash_from_file" /\ HasZero(path)) =>
        /\ nativeCalled = "none"
        /\ outcome.kind \notin {"ok", "err"}
        /\ pc = "done" => outcome.kind = "panic"

\* The NUL byte is in the second argument, not at its end.
C5_Witness ==
    /\ op = "compare"
    /\ pc = "done"
    /\ ~HasZero(hash1)
    /\ hash2 = <<0, 65>>
    /\ outcome.kind = "panic"

\* C6: with status 0 and a byte >= 128 among the bytes before the first
\* zero byte of the result buffer, hash()/hash_from_file() never return Ok
\* but panic.
C6_NonAsciiNeverOk ==
    (/\ HashCallEnded
     /\ rc = 0
     /\ \E k \in 1..ZeroFreePrefixLen(result) : result[k] >= 128) =>
        outcome.kind = "panic"

\* C7 as stated: the error of compare() is named "compare", that of hash()
\* "hash_buf", that of hash_from_file() "hash_filename".
C7_Original ==
    outcome.kind = "err" =>
        outcome.name = CASE op = "compare" -> "compare"
                         [] op = "hash" -> "hash_buf"
                         [] op = "hash_from_file" -> "hash_filename"
                         [] OTHER -> ""

\* C7 as amended: every error names the native function of its own
\* operation: "fuzzy_compare" for compare(), "fuzzy_hash_buf" for hash(),
\* "fuzzy_hash_filename" for hash_from_file().
C7_ErrorNamesNativeFunction ==
    outcome.kind = "err" =>
        outcome.name = CASE op = "compare" -> "fuzzy_compare"
                         [] op = "hash" -> "fuzzy_hash_buf"
                         [] op = "hash_from_file" -> "fuzzy_hash_filename"
                         [] OTHER -> ""

C7_Witness ==
    /\ pc = "done"
    /\ op = "hash_from_file"
    /\ outcome.kind = "err"
    /\ outcome.name = "fuzzy_hash_filename"

\* C8 as stated: the scan for the first zero byte runs after every native
\* call of hash()/hash_from_file(), whatever the status.
C8_Original == HashCallEnded => scanned

\* C8 as amended: the scan runs after a native call exactly when the call
\* reported status 0; with a non-zero status the error is returned and the
\* buffer is never read.
C8_ScanOnlyOnSuccess ==
    HashCallEnded =>
        /\ scanned <=> (rc = 0)
        /\ rc /= 0 => lastRead = -1

C8_Witness ==
    /\ HashCallEnded
    /\ rc = 1
    /\ ~scanned
    /\ outcome.kind = "err"

\* C9 as stated: every native return value r other than -1, also outside
\* 0..100, comes back from compare() as a score equal to r.
C9_Original ==
    (CompareCallEnded /\ rc /= -1) =>
        (outcome.kind = "ok" /\ outcome.score = rc)

\* C9 as amended: every native return value r other than -1 comes back as
\* Ok with the low eight bits of r (r modulo 256), which is r itself
\* exactly when 0 <= r <= 255.
C9_ScoreIsLowEightBits ==
    (CompareCallEnded /\ rc /= -1) =>
        /\ outcome.kind = "ok"
        /\ outcome.score \in 0..255
        /\ (rc - outcome.score) % 256 = 0
        /\ (outcome.score = rc) <=> (rc \in 0..255)

C9_Witness ==
    /\ CompareCallEnded
    /\ rc = 300
    /\ outcome.kind = "ok"
    /\ outcome.score = 44

\* C10: a call owns only its own buffer and native strings, and when it has
\* ended (Ok, Err or panic) each of them is released or, for the buffer of
\* an Ok signature, owned by the returned value; nothing is left for a
\* later call.
C10_NothingOutlivesTheCall ==
    /\ live \subseteq CASE op = "compare" -> {"h1", "h2"}
                        [] op = "hash" -> {"result"}
                        [] op = "hash_from_file" -> {"result", "fp"}
                        [] OTHER -> {}
    /\ pc \in {"idle", "done"} => live = {}
    /\ pc = "done" =>
        handed = IF op \in HashOps /\ outcome.kind = "ok"
                 THEN {"result"} ELSE {}
    /\ pc /= "done" => handed = {}

\* hash_from_file() panics on the path after its buffer was allocated.
C10_Witness ==
    /\ pc = "done"
    /\ op = "hash_from_file"
    /\ outcome = Panic("CString::new")
    /\ live = {}

=============================================================================
